---- MODULE Spec2Model ----
(***************************************************************************)
(* The TD3 agent of deeprl (actor_critic_methods/td3.py) with the          *)
(* single-layer instances of Policy and Quality                            *)
(* (actor_critic_methods/neural_network/mlp.py).                           *)
(*                                                                         *)
(* Numbers are integers: one unit is the action bound 1.0.  A parameter    *)
(* tensor is an integer, a module's parameters() is a sequence of them,    *)
(* and `params` is the store of all modules' parameters, indexed by module *)
(* reference, so that two references to one module share storage and a     *)
(* deep copy does not.  A batched tensor is a sequence over the batch.     *)
(* Results of a division are rounded down onto the integer grid.           *)
(***************************************************************************)
EXTENDS Integers, Sequences, FiniteSets

VARIABLES
    params,              \* store: module reference -> parameters() of that module
    policy,              \* self._policy (reference)
    qualities,           \* self._qualities (sequence of references)
    target_policy,       \* self._target_policy (reference)
    target_qualities,    \* self._target_qualities (sequence of references)
    experience_replay,   \* the stored transitions, oldest first
    policy_delay,        \* self._policy_delay: [period, pos] of cycle(range(period))
    batch_size,          \* self._batch_size
    discount_factor,     \* self._discount_factor
    polyak_factor,       \* self._polyak_factor, in units of 1/PolyakDen
    exploration_noise,   \* TRUE iff self._exploration_noise is an ActionNoise
    out_fn,              \* Policy._out_fn: "tanh" or "identity"
    calls,               \* observer: number of step calls made
    sampled,             \* observer: step calls whose replay sample succeeded
    critic_steps,        \* observer: quality optimiser steps taken
    policy_steps,        \* observer: policy optimiser steps taken
    syncs,               \* observer: target synchronisations made
    last                 \* observer: what the latest call did

vars == <<params, policy, qualities, target_policy, target_qualities,
          experience_replay, policy_delay, batch_size, discount_factor,
          polyak_factor, exploration_noise, out_fn,
          calls, sampled, critic_steps, policy_steps, syncs, last>>

config == <<policy, qualities, target_policy, target_qualities, batch_size,
            discount_factor, polyak_factor, exploration_noise, out_fn>>

(***************************************************************************)
(* Bounds of the model.                                                    *)
(***************************************************************************)
MaxCalls == 2
MaxQualities == 3
MaxDelay == 2
MaxBatch == 2
MaxNoise == 1
PolyakDen == 2

(***************************************************************************)
(* Tensor helpers.                                                         *)
(***************************************************************************)
RECURSIVE Sum(_)
Sum(xs) == IF xs = <<>> THEN 0 ELSE Head(xs) + Sum(Tail(xs))

MinOf(S) == CHOOSE x \in S : \A y \in S : x <= y

Range(xs) == {xs[i] : i \in 1..Len(xs)}

\* Tensor.clamp(lo, hi)
clamp(x, lo, hi) == IF x < lo THEN lo ELSE IF x > hi THEN hi ELSE x

\* torch.tanh on the integer grid: odd, monotone, saturating at the action bound
tanh(x) == IF x > 0 THEN 1 ELSE IF x < 0 THEN -1 ELSE 0

\* its derivative 1 - tanh(x)^2
tanh_grad(x) == 1 - tanh(x) * tanh(x)


(***************************************************************************)
(* The function approximators (mlp.py), with one linear layer each.        *)
(***************************************************************************)
\* Policy._out_fn applied to the last layer's output
OutFn(x) == IF out_fn = "tanh" THEN tanh(x) ELSE x

OutFnGrad(x) == IF out_fn = "tanh" THEN tanh_grad(x) ELSE 1

\* Policy.forward with parameters theta = <<weight, bias>>
PolicyForward(theta, state) == OutFn(theta[1] * state + theta[2])

\* Quality.forward with parameters theta = <<weight[state], weight[action], bias>>
QualityForward(theta, state, action) ==
    theta[1] * state + theta[2] * action + theta[3]

\* the parameter values a freshly initialised Policy / Quality holds; with the
\* transitions below they are in general position, as random initial weights
\* are: the first regression error and the first policy gradient are non-zero
PolicyInits == {<<0, 0>>}

QualityInits == {<<1, 1, 0>>}

(***************************************************************************)
(* Construction.                                                           *)
(***************************************************************************)
\* a copy that is the module itself: the storage is shared
deepcopy_alias(store, ref) == [store |-> store, ref |-> ref]

\* copy.deepcopy of a module: a new reference with storage of its own
deepcopy(store, ref) ==
    [store |-> Append(store, store[ref]), ref |-> Len(store) + 1]

\* n critics, each initialised afresh instead of copied from one network
RECURSIVE CopyTimesReinit(_, _, _)
CopyTimesReinit(store, ref, n) ==
    IF n = 0 THEN [store |-> store, refs |-> <<>>]
    ELSE LET rest == CopyTimesReinit(store, ref, n - 1)
         IN [store |-> Append(rest.store, [store[ref] EXCEPT ![3] = @ + n]),
             refs |-> Append(rest.refs, Len(rest.store) + 1)]

\* [deepcopy(quality) for _ in range(n)]
RECURSIVE CopyTimes(_, _, _)
CopyTimes(store, ref, n) ==
    IF n = 0 THEN [store |-> store, refs |-> <<>>]
    ELSE LET rest == CopyTimes(store, ref, n - 1)
             c == deepcopy(rest.store, ref)
         IN [store |-> c.store, refs |-> Append(rest.refs, c.ref)]

\* deepcopy of a list of modules
RECURSIVE CopyEach(_, _)
CopyEach(store, refs) ==
    IF refs = <<>> THEN [store |-> store, refs |-> <<>>]
    ELSE LET c == deepcopy(store, Head(refs))
             rest == CopyEach(c.store, Tail(refs))
         IN [store |-> rest.store, refs |-> <<c.ref>> \o rest.refs]

\* what `last` holds when no call has been made
NoCall ==
    [op |-> "init", outcome |-> "none", pre |-> <<>>, pre_delay |-> 0,
     batch |-> <<>>, target_quality |-> <<>>, min_quality |-> <<>>,
     target |-> <<>>, stepped |-> <<>>, critic_stepped |-> FALSE,
     policy_stepped |-> FALSE, synced |-> FALSE, raw |-> 0, action |-> 0]

\* TD3.__init__
Init ==
    \E p0 \in PolicyInits, q0 \in QualityInits, num_qualities \in 1..MaxQualities,
       period \in 1..MaxDelay, bs \in 1..MaxBatch, tau \in 1..PolyakDen,
       noise \in BOOLEAN, f \in {"tanh", "identity"} :
        LET s0 == <<p0, q0>>      \* the modules passed in: policy 1, quality 2
            qs == CopyTimes(s0, 2, num_qualities)
            tp == deepcopy(qs.store, 1)
            tq == CopyEach(tp.store, qs.refs)
        IN /\ params = tq.store
           /\ policy = 1
           /\ qualities = qs.refs
           /\ target_policy = tp.ref
           /\ target_qualities = tq.refs
           /\ experience_replay = <<>>
           /\ policy_delay = [period |-> period, pos |-> 0]
           /\ batch_size = bs
           /\ discount_factor = 1
           /\ polyak_factor = tau
           /\ exploration_noise = noise
           /\ out_fn = f
           /\ calls = 0
           /\ sampled = 0
           /\ critic_steps = 0
           /\ policy_steps = 0
           /\ syncs = 0
           /\ last = NoCall

(***************************************************************************)
(* The experience replay: push appends; sample draws batch_size stored     *)
(* transitions, and raises ValueError when fewer are stored.               *)
(***************************************************************************)
\* the transitions step is called with: one that goes on, one that terminates
Transitions ==
    {[state |-> 1, action |-> 1,  reward |-> 0, next_state |-> 0, terminated |-> FALSE],
     [state |-> 0, action |-> -1, reward |-> 2, next_state |-> 1, terminated |-> TRUE]}

push(replay, transition) == Append(replay, transition)

\* the index sequences sample(batch_size) may draw
SampleIndices(replay, n) ==
    {idx \in [1..n -> 1..Len(replay)] : \A i \in 1..n, j \in 1..n : i < j => idx[i] < idx[j]}

sample(replay, n, idx) ==
    IF Len(replay) < n THEN [error |-> "ValueError", batch |-> <<>>]
    ELSE [error |-> "none", batch |-> [j \in 1..n |-> replay[idx[j]]]]

(***************************************************************************)
(* TD3._update_parameters: the learning target.                            *)
(***************************************************************************)
\* self._smoothing_noise_clip
smoothing_noise_clip == 1

\* (torch.randn_like(a) * sigma).clamp(-c, c): the values one component may take
ClippedNoise == {clamp(x, -smoothing_noise_clip, smoothing_noise_clip) :
                    x \in -(smoothing_noise_clip + 1)..(smoothing_noise_clip + 1)}

\* (mu'(s') + eps).clamp(-1, 1), per transition
SmoothedAction(store, batch, eps) ==
    [j \in 1..Len(batch) |->
        clamp(PolicyForward(store[target_policy], batch[j].next_state) + eps[j], -1, 1)]

\* [Q'(s', a~) for Q' in Q'_]: one batched tensor per target critic
TargetQualities(store, batch, smoothed) ==
    [i \in 1..Len(target_qualities) |->
        [j \in 1..Len(batch) |->
            QualityForward(store[target_qualities[i]], batch[j].next_state, smoothed[j])]]

\* torch.min(*tensors): with one argument the minimum of all its elements (a
\* 0-dim tensor, shown here as broadcast over the batch), with two the
\* elementwise minimum, with more a TypeError
torch_min(tensors) ==
    IF Len(tensors) = 1
    THEN [error |-> "none",
          value |-> [j \in 1..Len(tensors[1]) |-> MinOf(Range(tensors[1]))]]
    ELSE IF Len(tensors) = 2
    THEN [error |-> "none",
          value |-> [j \in 1..Len(tensors[1]) |->
                        IF tensors[1][j] <= tensors[2][j] THEN tensors[1][j]
                                                          ELSE tensors[2][j]]]
    ELSE [error |-> "TypeError", value |-> <<>>]

\* ~d as a number
Not(d) == IF d THEN 0 ELSE 1

\* y = r + ~d * gamma * min(...)
LearningTarget(batch, min_quality) ==
    [j \in 1..Len(batch) |->
        batch[j].reward + Not(batch[j].terminated) * discount_factor * min_quality[j]]

(***************************************************************************)
(* TD3._update_parameters: the gradient steps and the synchronisation.     *)
(***************************************************************************)
\* the optimisers' rule: plain gradient descent, theta <- theta - lr * grad
learning_rate == 1

optimiser_step(theta, grad) ==
    [k \in 1..Len(theta) |-> theta[k] - learning_rate * grad[k]]

\* gradient of F.mse_loss(Q(s, a), target=y) in Q's parameters
MseGrad(theta, batch, y) ==
    LET n == Len(batch)
        err == [j \in 1..n |->
                   QualityForward(theta, batch[j].state, batch[j].action) - y[j]]
    IN <<(2 * Sum([j \in 1..n |-> err[j] * batch[j].state])) \div n,
         (2 * Sum([j \in 1..n |-> err[j] * batch[j].action])) \div n,
         (2 * Sum([j \in 1..n |-> err[j]])) \div n>>

\* self._quality_optimiser.step(): every parameter it was bound to, in turn
RECURSIVE StepEach(_, _, _)
StepEach(store, refs, grads) ==
    IF refs = <<>> THEN store
    ELSE StepEach([store EXCEPT ![Head(refs)] = optimiser_step(@, Head(grads))],
                  Tail(refs), Tail(grads))

\* quality_loss = sum of the critics' mse losses; zero_grad, backward, step
CriticStep(store, batch, y) ==
    StepEach(store, qualities,
             [i \in 1..Len(qualities) |-> MseGrad(store[qualities[i]], batch, y)])

\* gradient of -Q_[0](s, mu(s)).mean() in the policy's parameters
PolicyGrad(store, batch) ==
    LET n == Len(batch)
        theta == store[policy]
        wa == store[qualities[1]][2]
        z == [j \in 1..n |-> theta[1] * batch[j].state + theta[2]]
    IN <<(-Sum([j \in 1..n |-> wa * OutFnGrad(z[j]) * batch[j].state])) \div n,
         (-Sum([j \in 1..n |-> wa * OutFnGrad(z[j])])) \div n>>

\* policy_loss; zero_grad, backward, self._policy_optimiser.step()
PolicyStep(store, batch) ==
    [store EXCEPT ![policy] = optimiser_step(@, PolicyGrad(store, batch))]

\* the two weights exchanged: (1 - tau) * theta + tau * theta'
polyak_swapped(online, target) ==
    [k \in 1..Len(target) |->
        ((PolyakDen - polyak_factor) * online[k] + polyak_factor * target[k])
            \div PolyakDen]

\* tau * theta + (1 - tau) * theta', for each parameter of one module
polyak(online, target) ==
    [k \in 1..Len(target) |->
        (polyak_factor * online[k] + (PolyakDen - polyak_factor) * target[k])
            \div PolyakDen]

\* theta'.copy_(...) over zip(online modules, target modules)
RECURSIVE SyncEach(_, _, _)
SyncEach(store, onlines, targets) ==
    IF onlines = <<>> \/ targets = <<>> THEN store
    ELSE SyncEach([store EXCEPT ![Head(targets)] = polyak(store[Head(onlines)], @)],
                  Tail(onlines), Tail(targets))

\* the torch.no_grad() block: the critics' targets, then the policy's
PolyakSync(store) ==
    SyncEach(SyncEach(store, qualities, target_qualities),
             <<policy>>, <<target_policy>>)

\* next(self._policy_delay) on cycle(range(period))
next(delay) ==
    [value |-> delay.pos,
     iter |-> [delay EXCEPT !.pos = (delay.pos + 1) % delay.period]]

\* the delay counter consulted before the replay is sampled
ExceptValueErrorAfterNext(store, delay) ==
    [outcome |-> "underflow", params |-> store, policy_delay |-> next(delay).iter,
     batch |-> <<>>, target_quality |-> <<>>, min_quality |-> <<>>,
     target |-> <<>>, stepped |-> store, critic_stepped |-> FALSE,
     policy_stepped |-> FALSE, synced |-> FALSE]

\* except ValueError: return
ExceptValueError(store, delay) ==
    [outcome |-> "underflow", params |-> store, policy_delay |-> delay,
     batch |-> <<>>, target_quality |-> <<>>, min_quality |-> <<>>,
     target |-> <<>>, stepped |-> store, critic_stepped |-> FALSE,
     policy_stepped |-> FALSE, synced |-> FALSE]

\* "Delayed" policy updates: what follows the critic step
DelayedUpdate(store, delay, batch) ==
    LET nx == next(delay)
        improved == IF nx.value = 0 THEN PolicyStep(store, batch) ELSE store
    IN [params |-> IF nx.value = 0 THEN PolyakSync(improved) ELSE store,
        policy_delay |-> nx.iter,
        stepped |-> improved,
        policy_stepped |-> nx.value = 0,
        synced |-> nx.value = 0]

\* TD3._update_parameters on the replay `replay`, with the sample idx and the
\* smoothing noise eps drawn
UpdateParameters(store, delay, replay, idx, eps) ==
    LET s == sample(replay, batch_size, idx)
    IN IF s.error = "ValueError" THEN ExceptValueError(store, delay)
       ELSE LET batch == s.batch
                smoothed == SmoothedAction(store, batch, eps)
                tq == TargetQualities(store, batch, smoothed)
                m == torch_min(tq)
            IN IF m.error # "none"
               THEN [outcome |-> m.error, params |-> store, policy_delay |-> delay,
                     batch |-> batch, target_quality |-> tq, min_quality |-> <<>>,
                     target |-> <<>>, stepped |-> store, critic_stepped |-> FALSE,
                     policy_stepped |-> FALSE, synced |-> FALSE]
               ELSE LET y == LearningTarget(batch, m.value)
                        d == DelayedUpdate(CriticStep(store, batch, y), delay, batch)
                    IN [outcome |-> "updated", params |-> d.params,
                        policy_delay |-> d.policy_delay,
                        batch |-> batch, target_quality |-> tq,
                        min_quality |-> m.value, target |-> y,
                        stepped |-> d.stepped, critic_stepped |-> TRUE,
                        policy_stepped |-> d.policy_stepped, synced |-> d.synced]

Bit(b) == IF b THEN 1 ELSE 0

\* TD3.step
Step ==
    /\ calls < MaxCalls
    /\ \E transition \in Transitions :
         LET replay == push(experience_replay, transition)
         IN \E idx \in (IF Len(replay) < batch_size THEN {<<>>}
                        ELSE SampleIndices(replay, batch_size)),
               eps \in [1..batch_size -> ClippedNoise] :
              \E u \in {UpdateParameters(params, policy_delay, replay, idx, eps)} :
                 /\ experience_replay' = replay
                 /\ params' = u.params
                 /\ policy_delay' = u.policy_delay
                 /\ calls' = calls + 1
                 /\ sampled' = sampled + Bit(u.outcome # "underflow")
                 /\ critic_steps' = critic_steps + Bit(u.critic_stepped)
                 /\ policy_steps' = policy_steps + Bit(u.policy_stepped)
                 /\ syncs' = syncs + Bit(u.synced)
                 /\ last' = [NoCall EXCEPT
                               !.op = "step", !.outcome = u.outcome,
                               !.pre = params, !.pre_delay = policy_delay.pos,
                               !.batch = u.batch,
                               !.target_quality = u.target_quality,
                               !.min_quality = u.min_quality,
                               !.target = u.target, !.stepped = u.stepped,
                               !.critic_stepped = u.critic_stepped,
                               !.policy_stepped = u.policy_stepped,
                               !.synced = u.synced]
    /\ UNCHANGED config

\* the noisy action returned without the clamp
compute_action_unclamped(store, state, noise) ==
    LET action == PolicyForward(store[policy], state)
    IN IF exploration_noise THEN action + noise ELSE action

\* TD3.compute_action, with the exploration noise's value drawn
compute_action(store, state, noise) ==
    LET action == PolicyForward(store[policy], state)
    IN IF exploration_noise THEN clamp(action + noise, -1, 1) ELSE action

ComputeAction ==
    /\ \E state \in 0..1,
          noise \in (IF exploration_noise THEN -MaxNoise..MaxNoise ELSE {0}) :
         last' = [NoCall EXCEPT
                    !.op = "act",
                    !.raw = PolicyForward(params[policy], state),
                    !.action = compute_action(params, state, noise)]
    /\ UNCHANGED <<params, experience_replay, policy_delay, calls, sampled,
                   critic_steps, policy_steps, syncs>>
    /\ UNCHANGED config

Next == Step \/ ComputeAction

Spec == Init /\ [][Next]_vars

(***************************************************************************)
(* Shorthands for the properties.                                          *)
(***************************************************************************)
NumQualities == Len(qualities)

Period == policy_delay.period

InRange(a) == -1 <= a /\ a <= 1

AfterStep == last.op = "step"

\* the latest call was a step whose replay sample succeeded
SampleSucceeded == AfterStep /\ last.outcome # "underflow"

\* the minimum over the ensemble of the target critics' estimates for transition j
EnsembleMin(j) == MinOf({last.target_quality[i][j] : i \in 1..NumQualities})

\* target parameter `new` is tau * online + (1 - tau) * old, on the integer grid
IsBlend(new, online, old) ==
    LET exact == polyak_factor * online + (PolyakDen - polyak_factor) * old
    IN PolyakDen * new <= exact /\ exact < PolyakDen * new + PolyakDen

\* the (online, target) module pairs
Pairs == {<<qualities[i], target_qualities[i]>> : i \in 1..NumQualities}
             \cup {<<policy, target_policy>>}

(***************************************************************************)
(* C1: the critic step is taken on every call whose sample succeeds, the   *)
(* policy step and the synchronisation go together, and across             *)
(* k * policy_delay successful updates exactly k of them are made.         *)
(***************************************************************************)
C1_CriticEverySample ==
    /\ critic_steps = sampled
    /\ policy_steps = syncs
    /\ (sampled % Period = 0 => policy_steps * Period = sampled)

(***************************************************************************)
(* C2: a step call that leaves the replay with fewer than batch_size       *)
(* transitions returns normally and leaves every parameter, online and     *)
(* target, and the delay counter as they were before the call.             *)
(***************************************************************************)
C2_UnderflowNoMutation ==
    (AfterStep /\ Len(experience_replay) < batch_size) =>
        /\ last.outcome = "underflow"
        /\ params = last.pre
        /\ policy_delay.pos = last.pre_delay

C2_Witness ==
    /\ AfterStep
    /\ Len(experience_replay) < batch_size
    /\ last.outcome = "underflow"

(***************************************************************************)
(* C3: from an empty replay the first batch_size - 1 step calls make no    *)
(* update and the batch_size-th makes one, which changes the critics'      *)
(* parameters and, when policy_delay = 1, the policy's and the targets'.   *)
(***************************************************************************)
C3_FirstUpdateAtBatchSize ==
    /\ (AfterStep /\ calls < batch_size) =>
           sampled = 0 /\ critic_steps = 0 /\ policy_steps = 0 /\ syncs = 0
    /\ (AfterStep /\ calls = batch_size) =>
           /\ last.outcome = "updated"
           /\ sampled = 1 /\ critic_steps = 1
           /\ \A i \in 1..NumQualities : params[qualities[i]] # last.pre[qualities[i]]
           /\ Period = 1 =>
                  /\ params[policy] # last.pre[policy]
                  /\ \A i \in 1..NumQualities :
                         params[target_qualities[i]] # last.pre[target_qualities[i]]

(***************************************************************************)
(* C4: after a synchronisation every target parameter is                   *)
(* tau * online + (1 - tau) * target_old, with online the online parameter *)
(* at the time of the synchronisation, and the synchronisation leaves the  *)
(* online parameters as the gradient steps left them.                      *)
(***************************************************************************)
C4_PolyakBlend ==
    (AfterStep /\ last.synced) =>
        \A pr \in Pairs :
            /\ params[pr[1]] = last.stepped[pr[1]]
            /\ Len(params[pr[2]]) = Len(last.stepped[pr[2]])
            /\ \A k \in 1..Len(params[pr[2]]) :
                   IsBlend(params[pr[2]][k], last.stepped[pr[1]][k],
                           last.stepped[pr[2]][k])

C4_Witness ==
    /\ AfterStep /\ last.synced
    /\ polyak_factor < PolyakDen
    /\ \A pr \in Pairs :
           /\ last.stepped[pr[1]] # last.stepped[pr[2]]
           /\ params[pr[2]] # last.stepped[pr[2]]
           /\ params[pr[2]] # params[pr[1]]

(***************************************************************************)
(* C5: whatever the ensemble size, the bootstrapped quality used in the    *)
(* learning target of each sampled transition is the minimum over the      *)
(* target critics' estimates for that transition.                          *)
(***************************************************************************)
C5_MinAcrossEnsemble ==
    (AfterStep /\ last.outcome = "updated") =>
        \A j \in 1..Len(last.batch) : last.min_quality[j] = EnsembleMin(j)

(***************************************************************************)
(* C6: the learning target of a terminated transition is its reward alone; *)
(* that of any other is reward + discount_factor * the minimum target      *)
(* quality of that transition.                                             *)
(***************************************************************************)
C6_TargetMasksTerminal ==
    (AfterStep /\ last.outcome = "updated") =>
        \A j \in 1..Len(last.batch) :
            IF last.batch[j].terminated
            THEN last.target[j] = last.batch[j].reward
            ELSE last.target[j] =
                     last.batch[j].reward + discount_factor * EnsembleMin(j)

(***************************************************************************)
(* C7: the action compute_action returns lies within [-1, 1], with and     *)
(* without an exploration noise, for any policy network.                   *)
(***************************************************************************)
C7_ActionInRange == last.op = "act" => InRange(last.action)

(***************************************************************************)
(* C7, amended: the action lies within [-1, 1] when an exploration noise   *)
(* is configured, and when none is it is the policy's own output, which    *)
(* lies within [-1, 1] when the policy's output function is tanh.          *)
(***************************************************************************)
C7_ActionInRangeAmended ==
    last.op = "act" =>
        /\ exploration_noise => InRange(last.action)
        /\ ~exploration_noise => last.action = last.raw
        /\ out_fn = "tanh" => InRange(last.action)

C7_Witness ==
    /\ last.op = "act"
    /\ exploration_noise
    /\ ~InRange(last.raw)
    /\ InRange(last.action)

(***************************************************************************)
(* C8: right after construction every target approximator holds the same   *)
(* parameter values as its online approximator and shares no storage with  *)
(* it.                                                                     *)
(***************************************************************************)
C8_CloneFidelity ==
    calls = 0 =>
        /\ \A pr \in Pairs : params[pr[2]] = params[pr[1]]
        /\ Len(target_qualities) = NumQualities
        /\ ({target_policy} \cup Range(target_qualities))
               \cap ({policy} \cup Range(qualities)) = {}
        /\ Cardinality({target_policy} \cup Range(target_qualities))
               = NumQualities + 1

C8_Witness ==
    /\ calls = 0
    /\ NumQualities = 2
    /\ params[target_qualities[2]] = params[qualities[2]]
    /\ target_qualities[2] # qualities[2]

(***************************************************************************)
(* C9: in every reachable state all online critics hold equal parameters   *)
(* and all target critics hold equal parameters, so that the minimum over  *)
(* the ensemble equals each target critic's estimate.                      *)
(***************************************************************************)
C9_CriticsIdentical ==
    /\ \A i, k \in 1..NumQualities :
           /\ params[qualities[i]] = params[qualities[k]]
           /\ params[target_qualities[i]] = params[target_qualities[k]]
    /\ SampleSucceeded =>
           \A i \in 1..NumQualities, j \in 1..Len(last.batch) :
               last.target_quality[i][j] = EnsembleMin(j)

C9_Witness ==
    /\ NumQualities = 2
    /\ critic_steps >= 2 /\ syncs >= 1
    /\ params[qualities[1]] # params[2]
    /\ params[target_qualities[1]] # params[2]
    /\ params[target_qualities[1]] # params[qualities[1]]

(***************************************************************************)
(* C10: the first successful update makes the policy step and the          *)
(* synchronisation, and after it exactly the successful updates numbered   *)
(* 1 + k * policy_delay do, underflow calls not counted.                   *)
(***************************************************************************)
C10_TriggerPhase ==
    SampleSucceeded =>
        /\ last.policy_stepped = last.synced
        /\ last.policy_stepped <=> ((sampled - 1) % Period = 0)

(***************************************************************************)
(* The claims that presuppose a learning target, for the ensemble sizes    *)
(* torch.min accepts as an ensemble (two critics) or at least does not     *)
(* reject (one).                                                           *)
(***************************************************************************)
WithAcceptedEnsemble_C1 == NumQualities <= 2 => C1_CriticEverySample

WithAcceptedEnsemble_C3 == NumQualities <= 2 => C3_FirstUpdateAtBatchSize

WithAcceptedEnsemble_C10 == NumQualities <= 2 => C10_TriggerPhase

WithTwoCritics_C5 == NumQualities = 2 => C5_MinAcrossEnsemble

WithTwoCritics_C6 == NumQualities = 2 => C6_TargetMasksTerminal

====
